---- MODULE Spec2Model ----
(***************************************************************************)
(* A model of exvis/visualize.py: the Model/Variable/Constraint data       *)
(* model, the identifier predicate is_variable, the LP and MPS readers     *)
(* (one step per line of the input stream) and the edge projection of      *)
(* plot.  Text is modelled character by character: a str is a sequence of  *)
(* one-character strings.                                                  *)
(***************************************************************************)
EXTENDS Integers, Sequences, FiniteSets, TLC

VARIABLES
    variables,        \* Model.variables : id -> address of the Variable
    var_objs,         \* the Variable objects, by address: [id, constraints]
    constraints,      \* Model.constraints : list of Constraint.variables
    call,             \* the last Model method called, with its argument
    ret,              \* what the last create_variable call returned
    edges,            \* plot: the dict `edges` after the loops
    graph,            \* plot: the edges of G, (u, v) -> weight
    line,             \* read_lp / read_mps: the loop variable
    nsteps,           \* number of inputs taken so far (calls made, lines read)
    current_section,  \* read_lp
    rows,             \* read_mps: the dict `rows`, in insertion order
    is_columns,       \* read_mps
    scanned,          \* read_mps: the lines taken from the stream so far
    pc,               \* where the program is
    word,             \* the argument of is_variable
    result            \* the value is_variable returned

vars == <<variables, var_objs, constraints, call, ret, edges, graph, line,
          nsteps, current_section, rows, is_columns, scanned, pc, word, result>>

modelVars == <<variables, var_objs, constraints, call, ret>>
plotVars == <<edges, graph>>
lpVars == <<current_section>>
mpsVars == <<rows, is_columns, scanned>>
tokVars == <<word, result>>

----------------------------------------------------------------------------
(* Characters and str methods                                              *)

\* The characters of the model, in code point order (str comparison).
CodeOrder ==
    << "\t", "\n", " ", "'", "(", ")", "*", "+", ",", "-", ".",
       "0", "1", "2", "3", "4", "5", "6", "7", "8", "9", ":", "<", "=", ">",
       "A", "B", "C", "D", "E", "F", "G", "H", "I", "J", "K", "L", "M",
       "N", "O", "P", "Q", "R", "S", "T", "U", "V", "W", "X", "Y", "Z",
       "[", "\\", "]", "^", "_",
       "a", "b", "c", "d", "e", "f", "g", "h", "i", "j", "k", "l", "m",
       "n", "o", "p", "q", "r", "s", "t", "u", "v", "w", "x", "y", "z" >>

\* the rank of every character
OrdTable ==
    [c \in {CodeOrder[i] : i \in 1..Len(CodeOrder)} |->
        CHOOSE i \in 1..Len(CodeOrder) : CodeOrder[i] = c]

Ord(c) == OrdTable[c]

OrdA == Ord("A")
OrdZ == Ord("Z")
Ord_a == Ord("a")
Ord_z == Ord("z")

isdigit(c) == c \in {"0", "1", "2", "3", "4", "5", "6", "7", "8", "9"}

isupper(c) == Ord(c) >= OrdA /\ Ord(c) <= OrdZ

isalpha(c) == isupper(c) \/ (Ord(c) >= Ord_a /\ Ord(c) <= Ord_z)

isspace(c) == c \in {" ", "\t", "\n"}

lower_char(c) == IF isupper(c) THEN CodeOrder[Ord(c) - OrdA + Ord_a] ELSE c

lower(s) == [i \in 1..Len(s) |-> lower_char(s[i])]

\* s < t on str: lexicographic by code point, a proper prefix is smaller.
RECURSIVE str_less(_, _)
str_less(s, t) ==
    IF Len(t) = 0 THEN FALSE
    ELSE IF Len(s) = 0 THEN TRUE
    ELSE IF s[1] # t[1] THEN Ord(s[1]) < Ord(t[1])
    ELSE str_less(Tail(s), Tail(t))

RECURSIVE lstrip(_)
lstrip(s) == IF Len(s) > 0 /\ isspace(s[1]) THEN lstrip(Tail(s)) ELSE s

RECURSIVE rstrip(_)
rstrip(s) ==
    IF Len(s) > 0 /\ isspace(s[Len(s)]) THEN rstrip(SubSeq(s, 1, Len(s) - 1))
    ELSE s

strip(s) == rstrip(lstrip(s))

startswith(s, p) == Len(s) >= Len(p) /\ SubSeq(s, 1, Len(p)) = p

\* p in s, for str p and s
contains(s, p) ==
    \E i \in 1..(Len(s) - Len(p) + 1) : SubSeq(s, i, i + Len(p) - 1) = p

\* s.index(c): the position (from 1) of the first c in s, which holds one
index(s, c) ==
    CHOOSE i \in 1..Len(s) : s[i] = c /\ \A k \in 1..(i - 1) : s[k] # c

\* s.split(): the maximal runs of non-whitespace characters, in order
RECURSIVE split_from(_, _, _)
split_from(s, cur, acc) ==
    IF Len(s) = 0 THEN (IF Len(cur) > 0 THEN Append(acc, cur) ELSE acc)
    ELSE IF isspace(s[1])
         THEN split_from(Tail(s), <<>>,
                         IF Len(cur) > 0 THEN Append(acc, cur) ELSE acc)
         ELSE split_from(Tail(s), Append(cur, s[1]), acc)

split(s) == split_from(s, <<>>, <<>>)

----------------------------------------------------------------------------
(* is_variable                                                             *)

MaxNameLen == 255

FirstForbidden ==
    {"+", "-", "*", "^", "<", ">", "=", "(", ")", "[", "]", ",", ":"}

AnyForbidden == {"+", "-", "*", "^", ":"}

\* is_variable with >= for > in the length test of line 62
is_variable_off_by_one(w) ==
    IF Len(w) >= MaxNameLen \/ Len(w) = 0 THEN FALSE
    ELSE IF isdigit(w[1]) THEN FALSE
    ELSE IF w[1] \in FirstForbidden THEN FALSE
    ELSE IF \E i \in 1..Len(w) : w[i] \in AnyForbidden THEN FALSE
    ELSE TRUE

is_variable(w) ==
    IF Len(w) > MaxNameLen \/ Len(w) = 0 THEN FALSE
    ELSE IF isdigit(w[1]) THEN FALSE
    ELSE IF w[1] \in FirstForbidden THEN FALSE
    ELSE IF \E i \in 1..Len(w) : w[i] \in AnyForbidden THEN FALSE
    ELSE TRUE

----------------------------------------------------------------------------
(* Model                                                                   *)

\* create_variable without the lookup of line 39: a Variable per call
create_variable_always_new(vs, objs, id) ==
    [variables |-> (id :> (Len(objs) + 1)) @@ vs,
     var_objs |-> Append(objs, [id |-> id, constraints |-> <<>>]),
     ret |-> Len(objs) + 1]

\* Model.create_variable on the state (vs, objs): the new state and the
\* address of the Variable returned.
create_variable(vs, objs, id) ==
    IF id \in DOMAIN vs
    THEN [variables |-> vs, var_objs |-> objs, ret |-> vs[id]]
    ELSE [variables |-> (id :> (Len(objs) + 1)) @@ vs,
          var_objs |-> Append(objs, [id |-> id, constraints |-> <<>>]),
          ret |-> Len(objs) + 1]

\* vars = [self.create_variable(id) for id in variables]
RECURSIVE create_all(_, _, _, _)
create_all(vs, objs, ids, acc) ==
    IF Len(ids) = 0 THEN [variables |-> vs, var_objs |-> objs, vars |-> acc]
    ELSE LET r == create_variable(vs, objs, ids[1])
         IN  create_all(r.variables, r.var_objs, Tail(ids),
                        Append(acc, r.ret))

\* for var in vars: var.constraints.append(constraint)
RECURSIVE append_backrefs(_, _, _)
append_backrefs(objs, addrs, c) ==
    IF Len(addrs) = 0 THEN objs
    ELSE append_backrefs(
             [objs EXCEPT ![addrs[1]].constraints = Append(@, c)],
             Tail(addrs), c)

\* Model.create_constraint_relation on the state (vs, objs, cs); a
\* Constraint is named by its position in Model.constraints.
create_constraint_relation(vs, objs, cs, ids) ==
    LET r == create_all(vs, objs, ids, <<>>)
        c == Len(cs) + 1
    IN  [variables |-> r.variables,
         var_objs |-> append_backrefs(r.var_objs, r.vars, c),
         constraints |-> Append(cs, r.vars)]

----------------------------------------------------------------------------
(* plot: the edges                                                         *)

\* the (i, j) of the two nested range loops over a list of length n
RECURSIVE position_pairs(_, _, _)
position_pairs(n, i, j) ==
    IF i > n THEN <<>>
    ELSE IF j > n THEN position_pairs(n, i + 1, i + 2)
    ELSE <<(<<i, j>>)>> \o position_pairs(n, i, j + 1)

\* the key built for positions i and j of one constraint
edge_key(objs, cvars, i, j) ==
    LET a == objs[cvars[i]].id
        b == objs[cvars[j]].id
    IN  IF str_less(a, b) THEN <<a, b>> ELSE <<b, a>>

count_edge(es, edge) ==
    IF edge \notin DOMAIN es THEN (edge :> 1) @@ es
    ELSE [es EXCEPT ![edge] = @ + 1]

RECURSIVE count_constraint(_, _, _, _)
count_constraint(es, objs, cvars, pairs) ==
    IF Len(pairs) = 0 THEN es
    ELSE count_constraint(
             count_edge(es, edge_key(objs, cvars, pairs[1][1], pairs[1][2])),
             objs, cvars, Tail(pairs))

RECURSIVE count_edges(_, _, _)
count_edges(es, objs, cs) ==
    IF Len(cs) = 0 THEN es
    ELSE count_edges(
             count_constraint(es, objs, cs[1],
                              position_pairs(Len(cs[1]), 1, 2)),
             objs, Tail(cs))

EmptyDict == [k \in {} |-> 0]

\* G.add_edge(u, v, weight=w) on an undirected graph
add_edge(G, u, v, w) ==
    IF <<u, v>> \in DOMAIN G THEN [G EXCEPT ![<<u, v>>] = w]
    ELSE IF <<v, u>> \in DOMAIN G THEN [G EXCEPT ![<<v, u>>] = w]
    ELSE (<<u, v>> :> w) @@ G

\* for edge in edges: G.add_edge(edge[0], edge[1], weight=...)
RECURSIVE add_edges(_, _, _, _)
add_edges(G, es, keys, weighted) ==
    IF keys = {} THEN G
    ELSE LET edge == CHOOSE k \in keys : TRUE
         IN  add_edges(add_edge(G, edge[1], edge[2],
                                IF weighted THEN es[edge] ELSE 1),
                       es, keys \ {edge}, weighted)

----------------------------------------------------------------------------
(* Bounds and inputs                                                       *)

MaxArgLen == 2
MaxListLen == 3
MaxCalls == 2
MaxTokLen == 2

Ids == {<<"a">>, <<"b">>, <<"c">>}

\* the lists of ids passed to create_constraint_relation
ArgLists == UNION {[1..n -> Ids] : n \in 0..MaxArgLen}
IdLists == UNION {[1..n -> Ids] : n \in 0..MaxListLen}

NoCall == [op |-> "none", arg |-> <<>>, hit |-> FALSE]

\* the parts of the state a run does not use
ModelIdle ==
    /\ variables = EmptyDict /\ var_objs = <<>> /\ constraints = <<>>
    /\ call = NoCall /\ ret = 0
PlotIdle == edges = EmptyDict /\ graph = EmptyDict
LpIdle == current_section = "None"
MpsIdle == rows = <<>> /\ is_columns = FALSE /\ scanned = <<>>
ReadIdle == line = <<>> /\ nsteps = 0
TokIdle == word = <<>> /\ result = "unset"

----------------------------------------------------------------------------
(* Calls on a Model; a Model built by create_constraint_relation, then     *)
(* plot                                                                    *)

InitModel ==
    /\ pc = "model"
    /\ ModelIdle /\ PlotIdle /\ LpIdle /\ MpsIdle /\ ReadIdle /\ TokIdle

CreateVariable(id) ==
    /\ pc = "model"
    /\ nsteps < MaxCalls
    /\ nsteps' = nsteps + 1
    /\ LET r == create_variable(variables, var_objs, id)
       IN  /\ variables' = r.variables
           /\ var_objs' = r.var_objs
           /\ ret' = r.ret
    /\ call' = [op |-> "create_variable", arg |-> id,
                hit |-> id \in DOMAIN variables]
    /\ UNCHANGED <<constraints, plotVars, line, lpVars, mpsVars, pc,
                   tokVars>>

CreateConstraintRelation(ids) ==
    /\ pc \in {"model", "build"}
    /\ nsteps < MaxCalls
    /\ nsteps' = nsteps + 1
    /\ LET r == create_constraint_relation(variables, var_objs,
                                           constraints, ids)
       IN  /\ variables' = r.variables
           /\ var_objs' = r.var_objs
           /\ constraints' = r.constraints
    /\ call' = [op |-> "create_constraint_relation", arg |-> ids,
                hit |-> FALSE]
    /\ UNCHANGED <<ret, plotVars, line, lpVars, mpsVars, pc, tokVars>>

Plot(weighted) ==
    /\ pc = "build"
    /\ edges' = count_edges(EmptyDict, var_objs, constraints)
    /\ graph' = add_edges(EmptyDict, edges', DOMAIN edges', weighted)
    /\ call' = [op |-> "plot", arg |-> weighted, hit |-> FALSE]
    /\ pc' = "plotted"
    /\ UNCHANGED <<variables, var_objs, constraints, ret, line, nsteps,
                   lpVars, mpsVars, tokVars>>

NextModel ==
    \/ \E id \in Ids : CreateVariable(id)
    \/ \E ids \in ArgLists : CreateConstraintRelation(ids)

SpecModel == InitModel /\ [][NextModel]_vars

InitPlot ==
    /\ pc = "build"
    /\ ModelIdle /\ PlotIdle /\ LpIdle /\ MpsIdle /\ ReadIdle /\ TokIdle

NextPlot ==
    \/ \E ids \in IdLists : CreateConstraintRelation(ids)
    \/ \E weighted \in BOOLEAN : Plot(weighted)

SpecPlot == InitPlot /\ [][NextPlot]_vars

----------------------------------------------------------------------------
(* Properties of the Model and of the edges of plot                        *)

Range(f) == {f[x] : x \in DOMAIN f}

\* the ids of the Variables of constraint number c
ConstraintIds(c) == {var_objs[a].id : a \in Range(constraints[c])}

\* the ids the call that led to the next state passed in
PassedIds(c) ==
    IF c.op = "create_variable" THEN {c.arg}
    ELSE IF c.op = "create_constraint_relation" THEN Range(c.arg)
    ELSE {}

ModelConsistent ==
    /\ Len(var_objs) = Cardinality(DOMAIN variables)
    /\ \A id \in DOMAIN variables :
           /\ variables[id] \in 1..Len(var_objs)
           /\ var_objs[variables[id]].id = id
    /\ \A c \in 1..Len(constraints) : \A k \in 1..Len(constraints[c]) :
           LET a == constraints[c][k]
           IN  /\ a \in 1..Len(var_objs)
               /\ var_objs[a].id \in DOMAIN variables
               /\ variables[var_objs[a].id] = a

ModelStep ==
    /\ DOMAIN variables' = DOMAIN variables \cup PassedIds(call')
    /\ \A id \in DOMAIN variables : variables'[id] = variables[id]
    /\ (call'.op = "create_variable" /\ call'.hit) =>
           /\ ret' = variables[call'.arg]
           /\ variables' = variables
           /\ var_objs' = var_objs
           /\ constraints' = constraints

\* C6: Model.variables holds exactly one Variable per id ever passed in,
\* every Variable in a Constraint's list is the object stored in
\* Model.variables under its id, and create_variable with an id already
\* present returns that object and changes neither Model.variables nor the
\* Constraints.
Thm_C6 == [](pc = "model" => ModelConsistent)
          /\ [][ModelStep]_vars

\* a Variable that a Constraint holds was asked for again
Wit_C6 ==
    /\ pc = "model"
    /\ call.op = "create_variable" /\ call.hit
    /\ Len(constraints) = 1
    /\ call.arg \in ConstraintIds(1)

\* C2 as claimed: plot adds no edge whose two endpoints are the same id.
Cex_C2 == pc = "plotted" => \A e \in DOMAIN graph : e[1] # e[2]

\* the number of Constraints whose list holds both u and v
CoOccurrences(u, v) ==
    Cardinality({c \in 1..Len(constraints) : {u, v} \subseteq ConstraintIds(c)})

\* C3 as claimed: weighted, the weight of every edge is the number of
\* distinct Constraints holding both endpoints; unweighted, it is 1.
\* (Stated for the edges between two different ids.)
Cex_C3 ==
    pc = "plotted" =>
        \A e \in DOMAIN graph :
            e[1] # e[2] =>
            graph[e] = IF call.arg THEN CoOccurrences(e[1], e[2]) ELSE 1

\* C8 as claimed: the edges are exactly the pairs of distinct ids that
\* occur together in a Constraint, each once, smaller id first.
Cex_C8 ==
    pc = "plotted" =>
        DOMAIN graph =
            {e \in (DOMAIN variables) \X (DOMAIN variables) :
                /\ str_less(e[1], e[2])
                /\ CoOccurrences(e[1], e[2]) >= 1}

----------------------------------------------------------------------------
(* is_variable on its own                                                  *)

TokAlphabet ==
    {"x", "7", "+", "-", "*", "^", "<", ">", "=", "(", ")", "[", "]", ",",
     ":", "_", "."}

ShortTokens == UNION {[1..n -> TokAlphabet] : n \in 0..MaxTokLen}

\* a token made of s followed by n times the letter x
Padded(s, n) == s \o [i \in 1..n |-> "x"]

LongTokens ==
    {Padded(s, n) : s \in {t \in ShortTokens : Len(t) <= 1},
                    n \in (MaxNameLen - 2)..(MaxNameLen + 1)}

Tokens == ShortTokens \cup LongTokens

InitTok ==
    /\ pc = "tok"
    /\ word \in Tokens
    /\ result = "unset"
    /\ ModelIdle /\ PlotIdle /\ LpIdle /\ MpsIdle /\ ReadIdle

IsVariable ==
    /\ pc = "tok"
    /\ result = "unset"
    /\ result' = IF is_variable(word) THEN "True" ELSE "False"
    /\ UNCHANGED <<modelVars, plotVars, line, nsteps, lpVars, mpsVars, pc,
                   word>>

NextTok == IsVariable

SpecTok == InitTok /\ [][NextTok]_vars

\* the predicate of the LP format, as the documentation states it
NameRule(t) ==
    /\ 1 <= Len(t) /\ Len(t) <= 255
    /\ t[1] \notin {"0", "1", "2", "3", "4", "5", "6", "7", "8", "9"}
    /\ t[1] \notin {"+", "-", "*", "^", "<", ">", "=", "(", ")", "[", "]",
                     ",", ":"}
    /\ \A i \in 1..Len(t) : t[i] \notin {"+", "-", "*", "^", ":"}

\* C7: is_variable(token) is true exactly when 1 <= len(token) <= 255, the
\* first character is neither a digit nor one of + - * ^ < > = ( ) [ ] , :
\* and no character is one of + - * ^ :
Thm_C7 ==
    (pc = "tok" /\ result # "unset") => (result = "True" <=> NameRule(word))

\* a name of 255 characters was accepted
Wit_C7 == pc = "tok" /\ result = "True" /\ Len(word) = 255

----------------------------------------------------------------------------
(* read_lp                                                                 *)

section_obj ==
    {<<"m", "i", "n", "i", "m", "i", "z", "e">>,
     <<"m", "a", "x", "i", "m", "i", "z", "e">>,
     <<"m", "i", "n", "i", "m", "u", "m">>,
     <<"m", "a", "x", "i", "m", "u", "m">>,
     <<"m", "i", "n">>,
     <<"m", "a", "x">>}

section_con ==
    {<<"s", "u", "b", "j", "e", "c", "t", " ", "t", "o">>,
     <<"s", "u", "c", "h", " ", "t", "h", "a", "t">>,
     <<"s", "t">>,
     <<"s", ".", "t", ".">>}

\* the loop body of read_lp for one line, on the state (sec, vs, objs, cs)
lp_is_comment(l) == startswith(l, <<"\\">>)

\* is_header with the test the comment of line 104 describes
lp_is_header_not_space(l) == ~isspace(l[1])

lp_is_header(l) == isalpha(l[1])

lp_cut_comment(l) ==
    IF contains(l, <<"\\">>) THEN SubSeq(l, 1, index(l, "\\") - 1) ELSE l

\* the label kept in the line
lp_keep_label(l) == l

lp_drop_label(l) ==
    IF contains(l, <<":">>) THEN SubSeq(l, index(l, ":") + 1, Len(l)) ELSE l

lp_variables(stripped_lower) ==
    SelectSeq(split(lp_drop_label(lp_cut_comment(stripped_lower))),
              is_variable)

lp_line(sec, vs, objs, cs, l) ==
    LET same == [section |-> sec, variables |-> vs, var_objs |-> objs,
                 constraints |-> cs, registered |-> <<>>]
        stripped_lower == lower(strip(l))
    IN  IF lp_is_comment(l) THEN same
        ELSE IF Len(stripped_lower) = 0 THEN same
        ELSE IF lp_is_header(l)
             THEN IF stripped_lower \in section_obj
                  THEN [same EXCEPT !.section = "objective"]
                  ELSE IF stripped_lower \in section_con
                       THEN [same EXCEPT !.section = "constraint"]
                       ELSE [same EXCEPT !.section = "None"]
        ELSE IF sec # "constraint" /\ sec # "objective" THEN same
        ELSE LET names == lp_variables(stripped_lower)
             IN  IF Len(names) > 0
                 THEN LET r == create_constraint_relation(vs, objs, cs, names)
                      IN  [section |-> sec, variables |-> r.variables,
                           var_objs |-> r.var_objs,
                           constraints |-> r.constraints,
                           registered |-> <<names>>]
                 ELSE same

MaxLpLines == 4
MaxLpGenLen == 2

LpSubjectTo ==
    <<"s", "u", "b", "j", "e", "c", "t", " ", "t", "o", "\n">>

LpRowIndented ==
    <<" ", "c", "1", ":", " ", "x", " ", "+", " ", "y", " ", "<", "=", " ",
      "1", "0", "\n">>

LpRowUnindented ==
    <<"c", "1", ":", " ", "x", " ", "+", " ", "y", " ", "<", "=", " ", "1",
      "0", "\n">>


LpAlphabet == {" ", "x", ":", "\\"}

\* a file yields its lines with the newline that ends them; only the last
\* line can lack it, and no line is empty
LpGenerated ==
    {t \o <<"\n">> :
        t \in UNION {[1..n -> LpAlphabet] : n \in 1..MaxLpGenLen}}

LpLines ==
    {LpSubjectTo, LpRowIndented, LpRowUnindented,
     <<"S", "u", "b", "j", "e", "c", "t", " ", "T", "o", "\n">>,
     <<"s", "t", "\n">>,
     <<"s", ".", "t", ".", " ", "\n">>,
     <<"m", "a", "x", "\n">>,
     <<"M", "i", "n", "i", "m", "i", "z", "e", "\n">>,
     <<"b", "o", "u", "n", "d", "s", "\n">>,
     <<"e", "n", "d">>,
     <<"\\", " ", "s", "t", "\n">>,
     <<"\n">>,
     <<" ", " ", "\n">>,
     <<" ", "x", " ", "+", " ", "x", " ", "<", "=", " ", "1", "\n">>,
     <<" ", "o", "b", "j", ":", " ", "x", " ", "+", " ", "2", " ", "z", "\n">>,
     <<" ", "C", "2", ":", " ", "X", " ", "-", " ", "Y", " ", "\\", " ",
       "w", "\n">>,
     <<"-", "x", " ", "+", " ", "y", " ", ">", "=", " ", "0", "\n">>,
     <<" ", "<", "=", " ", "3", "\n">>,
     <<" ", "a", "\\", "b", ":", " ", "x", "\n">>,
     <<" ", "s", "t", "\n">>,
     <<" ", "x", ":", " ", "y", ":", " ", "z", "\n">>,
     <<" ", "r", " ", ":", " ", "x", " ", "+", " ", "y", "\n">>,
     <<"\t", "x", " ", "y", "\n">>,
     <<"3", " ", "x", ":", " ", "y", "\n">>}
    \cup LpGenerated

InitLP ==
    /\ pc = "lp"
    /\ ModelIdle /\ PlotIdle /\ LpIdle /\ MpsIdle /\ ReadIdle /\ TokIdle

LpReadLine(l) ==
    /\ pc = "lp"
    /\ nsteps < MaxLpLines
    /\ nsteps' = nsteps + 1
    /\ line' = l
    /\ LET r == lp_line(current_section, variables, var_objs, constraints, l)
       IN  /\ current_section' = r.section
           /\ variables' = r.variables
           /\ var_objs' = r.var_objs
           /\ constraints' = r.constraints
           /\ call' = IF r.registered # <<>>
                      THEN [op |-> "create_constraint_relation",
                            arg |-> r.registered[1], hit |-> FALSE]
                      ELSE call
    /\ UNCHANGED <<ret, plotVars, mpsVars, pc, tokVars>>

\* the stream is exhausted: f.close() and return model
LpEof ==
    /\ pc = "lp"
    /\ pc' = "lp_done"
    /\ UNCHANGED <<modelVars, plotVars, line, nsteps, lpVars, mpsVars,
                   tokVars>>

NextLP ==
    \/ \E l \in LpLines : LpReadLine(l)
    \/ LpEof

SpecLP == InitLP /\ [][NextLP]_vars

----------------------------------------------------------------------------
(* Properties of read_lp                                                   *)

\* the Constraints as lists of ids
IdsOf(objs, cvars) == [k \in 1..Len(cvars) |-> objs[cvars[k]].id]
ConstraintLists(objs, cs) == [c \in 1..Len(cs) |-> IdsOf(objs, cs[c])]

\* a step of read_lp that reads a line (the line is line')
LpReads == pc = "lp" /\ pc' = "lp"

\* a row `<label>: <body>`: not a comment, not a header, and a `:` with
\* no backslash before it
LabelledRow(l) ==
    /\ l[1] # "\\"
    /\ ~isalpha(l[1])
    /\ \E i \in 1..Len(l) :
           l[i] = ":" /\ \A k \in 1..i : l[k] # "\\"

\* the body of a labelled row: what follows the first `:`, up to the first
\* backslash, in lower case
RowBody(l) ==
    LET i == CHOOSE i \in 1..Len(l) :
                 l[i] = ":" /\ \A k \in 1..(i - 1) : l[k] # ":"
        rest == SubSeq(l, i + 1, Len(l))
        ends == {j \in 1..Len(rest) : rest[j] = "\\"}
        stop == IF ends = {} THEN Len(rest) + 1
                ELSE CHOOSE j \in ends : \A m \in ends : j <= m
    IN  lower(SubSeq(rest, 1, stop - 1))

RowNames(l) == SelectSeq(split(RowBody(l)), is_variable)

C1Step ==
    LpReads =>
       /\ (nsteps = 1 /\ line = LpSubjectTo /\ line' = LpRowIndented) =>
              /\ DOMAIN variables' = {<<"x">>, <<"y">>}
              /\ ConstraintLists(var_objs', constraints')
                    = << <<(<<"x">>), (<<"y">>)>> >>
       /\ (current_section = "constraint" /\ LabelledRow(line')) =>
              ConstraintLists(var_objs', constraints')
                 = ConstraintLists(var_objs, constraints)
                   \o (IF RowNames(line') = <<>> THEN <<>>
                       ELSE <<RowNames(line')>>)

\* C1 as claimed: after a `subject to` header line, the row line
\* `c1: x + y <= 10` (label first) gives variables {x, y} and the one
\* Constraint [x, y].
Cex_C1 ==
    [][(LpReads /\ nsteps = 1 /\ line = LpSubjectTo
           /\ line' = LpRowUnindented) =>
          /\ DOMAIN variables' = {<<"x">>, <<"y">>}
          /\ ConstraintLists(var_objs', constraints')
                = << <<(<<"x">>), (<<"y">>)>> >>]_vars

\* C1, amended: after a `subject to` header line, the indented row line
\* ` c1: x + y <= 10` gives variables {x, y} and the one Constraint
\* [x, y]; and a row `<label>: <body>` that starts with neither a letter
\* nor a backslash and has no backslash in its label, read inside a
\* constraint section, registers one relation made of the tokens of the
\* lower-cased body, cut at its first backslash, that pass is_variable, in
\* order, when there is such a token, and none otherwise.
Thm_C1 == [][C1Step]_vars

\* the indented row was read right after the header, as the second line
Wit_C1 ==
    /\ pc = "lp" /\ nsteps = 2 /\ line = LpRowIndented
    /\ current_section = "constraint"
    /\ ConstraintLists(var_objs, constraints) = << <<(<<"x">>), (<<"y">>)>> >>

HeaderTarget(l) ==
    IF lower(strip(l)) \in section_obj THEN "objective"
    ELSE IF lower(strip(l)) \in section_con THEN "constraint"
    ELSE "None"

C9Step ==
    LpReads =>
       /\ IF isalpha(line'[1])
          THEN current_section' = HeaderTarget(line')
          ELSE current_section' = current_section
       /\ (line'[1] = "\\" \/ strip(line') = <<>>) =>
              UNCHANGED <<current_section, variables, var_objs, constraints>>
       /\ constraints' # constraints =>
              current_section \in {"objective", "constraint"}

----------------------------------------------------------------------------
(* read_mps                                                                *)

COLUMNS == <<"C", "O", "L", "U", "M", "N", "S">>
MARKER == <<"M", "A", "R", "K", "E", "R">>

\* rows[row].append(col), with rows[row] = [] first for a new row
rows_append(rs, row, col) ==
    IF \E k \in 1..Len(rs) : rs[k].row = row
    THEN [k \in 1..Len(rs) |->
             IF rs[k].row = row
             THEN [rs[k] EXCEPT !.cols = Append(@, col)] ELSE rs[k]]
    ELSE Append(rs, [row |-> row, cols |-> <<col>>])

\* for i in range(1, len(content), 2): ... from position i (from 0)
RECURSIVE mps_columns(_, _, _)
mps_columns(rs, content, i) ==
    IF i >= Len(content) THEN rs
    ELSE mps_columns(rows_append(rs, content[1], content[i + 1]),
                     content, i + 2)

\* the loop body of read_mps for one line
mps_line(rs, cols, l) ==
    LET continue == [rows |-> rs, is_columns |-> cols, exit |-> "continue"]
        content == split(l)
    IN  IF startswith(l, COLUMNS) THEN [continue EXCEPT !.is_columns = TRUE]
        ELSE IF ~cols THEN continue
        ELSE IF Len(strip(l)) = 0 THEN continue
        ELSE IF ~isspace(l[1]) THEN [continue EXCEPT !.exit = "break"]
        ELSE IF Len(content) < 2
             THEN [continue EXCEPT !.exit = "IndexError"]
        ELSE IF contains(content[2], MARKER) THEN continue
        ELSE [continue EXCEPT !.rows = mps_columns(rs, content, 1)]

\* model = Model(); for row in rows.values(): ...
RECURSIVE mps_model(_, _, _, _)
mps_model(vs, objs, cs, rs) ==
    IF Len(rs) = 0
    THEN [variables |-> vs, var_objs |-> objs, constraints |-> cs]
    ELSE LET r == create_constraint_relation(vs, objs, cs, rs[1].cols)
         IN  mps_model(r.variables, r.var_objs, r.constraints, Tail(rs))

MaxMpsLines == 4

MpsColumns ==
    <<"C", "O", "L", "U", "M", "N", "S", "\n">>

MpsRow1Line ==
    <<" ", "R", "O", "W", "1", " ", "X", "1", " ", "1", ".", "0", " ", "X",
      "2", " ", "2", ".", "0", "\n">>

MpsOneToken ==
    <<" ", "R", "O", "W", "2", "\n">>


\* a file yields its lines with the newline that ends them; only the last
\* line can lack it, and no line is empty
MpsLines ==
    {MpsColumns, MpsRow1Line, MpsOneToken,
     <<"N", "A", "M", "E", " ", "t", "\n">>,
     <<" ", "N", " ", "o", "b", "j", "\n">>,
     <<"R", "O", "W", "S", "\n">>,
     <<"C", "O", "L", "U", "M", "N", "S", " ", "X", "1", "\n">>,
     <<" ", "R", "O", "W", "1", " ", "X", "3", " ", "1", "\n">>,
     <<" ", "R", "O", "W", "2", " ", "X", "1", " ", "1", " ", "X", "1",
       " ", "2", "\n">>,
     <<" ", "R", "O", "W", "2", " ", "X", "2", "\n">>,
     <<" ", "R", "O", "W", "1", " ", "X", "1", " ", "1", " ", "X", "2",
       "\n">>,
     <<" ", "M", " ", "'", "M", "A", "R", "K", "E", "R", "'", " ", "'",
       "I", "N", "T", "O", "R", "G", "'", "\n">>,
     <<" ", "R", "O", "W", "1", " ", "X", "M", "A", "R", "K", "E", "R",
       " ", "1", "\n">>,
     <<"\n">>,
     <<" ", " ", "\n">>,
     <<"R", "H", "S", "\n">>,
     <<"E", "N", "D", "A", "T", "A">>}

InitMPS ==
    /\ pc = "mps"
    /\ ModelIdle /\ PlotIdle /\ LpIdle /\ MpsIdle /\ ReadIdle /\ TokIdle

\* after the loop: f.close(), then the Model from rows
MpsReturn(rs) ==
    LET m == mps_model(EmptyDict, <<>>, <<>>, rs)
    IN  /\ variables' = m.variables
        /\ var_objs' = m.var_objs
        /\ constraints' = m.constraints
        /\ call' = IF Len(rs) > 0
                   THEN [op |-> "create_constraint_relation",
                         arg |-> rs[Len(rs)].cols, hit |-> FALSE]
                   ELSE call
        /\ pc' = "mps_done"

MpsReadLine(l) ==
    /\ pc = "mps"
    /\ nsteps < MaxMpsLines
    /\ nsteps' = nsteps + 1
    /\ line' = l
    /\ scanned' = Append(scanned, l)
    /\ LET r == mps_line(rows, is_columns, l)
       IN  /\ rows' = r.rows
           /\ is_columns' = r.is_columns
           /\ CASE r.exit = "continue" ->
                      UNCHANGED <<variables, var_objs, constraints, call, pc>>
                [] r.exit = "break" -> MpsReturn(r.rows)
                [] r.exit = "IndexError" ->
                      /\ pc' = "mps_raised"
                      /\ UNCHANGED <<variables, var_objs, constraints, call>>
    /\ UNCHANGED <<ret, plotVars, lpVars, tokVars>>

\* the stream is exhausted
MpsEof ==
    /\ pc = "mps"
    /\ MpsReturn(rows)
    /\ UNCHANGED <<ret, plotVars, line, nsteps, lpVars, mpsVars, tokVars>>

NextMPS ==
    \/ \E l \in MpsLines : MpsReadLine(l)
    \/ MpsEof

SpecMPS == InitMPS /\ [][NextMPS]_vars

----------------------------------------------------------------------------
(* Properties of read_mps                                                  *)

Min(S) == CHOOSE x \in S : \A y \in S : x <= y

Unindented(l) == Len(strip(l)) > 0 /\ ~isspace(l[1])

\* the position in s of the first line that starts with COLUMNS, or
\* Len(s) + 1
SectionStart(s) ==
    Min({i \in 1..Len(s) : startswith(s[i], COLUMNS)} \cup {Len(s) + 1})

\* the position in s of the first non-blank unindented line after the
\* start of the section, or Len(s) + 1
SectionEnd(s) ==
    Min({j \in (SectionStart(s) + 1)..Len(s) : Unindented(s[j])}
        \cup {Len(s) + 1})

IsMarkerLine(l) == Len(split(l)) >= 2 /\ contains(split(l)[2], MARKER)

\* the positions in s of the data lines of the COLUMNS section
DataLines(s) ==
    {i \in (SectionStart(s) + 1)..(SectionEnd(s) - 1) :
        Len(strip(s[i])) > 0 /\ ~IsMarkerLine(s[i])}

\* the tokens at positions 1, 3, 5, ... (from 0) of a line
RECURSIVE EveryOther(_, _)
EveryOther(toks, i) ==
    IF i >= Len(toks) THEN <<>>
    ELSE <<toks[i + 1]>> \o EveryOther(toks, i + 2)

\* the concatenation, over the data lines of s from position i on that
\* carry the row name r, of their tokens at positions 1, 3, 5, ...
RECURSIVE RowList(_, _, _)
RowList(s, r, i) ==
    IF i > Len(s) THEN <<>>
    ELSE (IF i \in DataLines(s) /\ split(s[i])[1] = r
          THEN EveryOther(split(s[i]), 1) ELSE <<>>)
         \o RowList(s, r, i + 1)

RowNamesSeen(s) == {split(s[i])[1] : i \in DataLines(s)}

\* C4 as claimed: parsing never fails on line content.
Cex_C4 == pc # "mps_raised"

\* C5 as claimed: read_mps produces exactly one Constraint per distinct
\* row name seen on the data lines of the COLUMNS section, whose list is
\* the concatenation, in encounter order, of the tokens at positions
\* 1, 3, 5, ... of the data lines that carry the name.
Cex_C5 ==
    pc \in {"mps_done", "mps_raised"} =>
        LET made == ConstraintLists(var_objs, constraints)
            names == RowNamesSeen(scanned)
        IN  /\ Len(made) = Cardinality(names)
            /\ \A r \in names :
                   Cardinality({c \in 1..Len(made) :
                                   made[c] = RowList(scanned, r, 1)})
                   = Cardinality({q \in names :
                                   RowList(scanned, q, 1)
                                     = RowList(scanned, r, 1)})

\* C10 as claimed: no line before the first COLUMNS line adds to a row,
\* and no line at or after the first non-blank unindented line inside
\* the section does.
Cex_C10 ==
    [][(pc = "mps" /\ (SectionStart(scanned') > Len(scanned')
                        \/ SectionEnd(scanned') <= Len(scanned')))
          => rows' = rows]_vars

----------------------------------------------------------------------------
(* The program as a whole: one of the five runs above                      *)

Init == InitModel \/ InitPlot \/ InitTok \/ InitLP \/ InitMPS

Next == NextModel \/ NextPlot \/ NextTok \/ NextLP \/ NextMPS

Spec == Init /\ [][Next]_vars

====
